---- MODULE Spec2Model ----
(***************************************************************************)
(* baycheck: eBay search monitor.                                          *)
(*   src/scraper.go  field normalisers, listing filters, Scraper.Scrape    *)
(*   src/main.go     configuration, saveNewItems, the polling loop         *)
(* Text is modelled as a sequence of one-character strings.                *)
(***************************************************************************)
EXTENDS Integers, Sequences, FiniteSets, TLC

VARIABLES
    pc,          \* position of main(): "startup", "loop", "fatal"; "pure" in the function harnesses
    config,      \* Config{CheckInterval, Searches}
    seenItems,   \* map[string]map[string]bool, as query -> set of urls
    idx,         \* index of the next search of the running cycle
    cycleLog,    \* history: the searches attempted in the running cycle, [i, err]
    sleeps,      \* history: the last end-of-cycle sleep
    step,        \* history: what the last processed search did
    reportCount, \* history: query -> url -> number of times saved and printed
    call         \* harness for the pure functions: input and result

vars == <<pc, config, seenItems, idx, cycleLog, sleeps, step, reportCount, call>>

(***************************************************************************)
(* Bounds                                                                  *)
(***************************************************************************)
MaxPriceLen == 3
MaxTimePieces == 3
MaxBlocks == 2
MaxCount == 2

(***************************************************************************)
(* Text helpers (strings, strconv, regexp as used by the program)          *)
(***************************************************************************)
Digits == {"0", "1", "2", "3", "4", "5", "6", "7", "8", "9"}

DigitVal(c) ==
    CASE c = "0" -> 0 [] c = "1" -> 1 [] c = "2" -> 2 [] c = "3" -> 3
      [] c = "4" -> 4 [] c = "5" -> 5 [] c = "6" -> 6 [] c = "7" -> 7
      [] c = "8" -> 8 [] c = "9" -> 9

IsSpace(c) == c = " "

RECURSIVE Pow10(_)
Pow10(n) == IF n = 0 THEN 1 ELSE 10 * Pow10(n - 1)

HasPrefix(s, p) ==
    /\ Len(s) >= Len(p)
    /\ SubSeq(s, 1, Len(p)) = p

TrimPrefix(s, p) ==
    IF HasPrefix(s, p) THEN SubSeq(s, Len(p) + 1, Len(s)) ELSE s

RECURSIVE TrimLeft(_)
TrimLeft(s) ==
    IF s # <<>> /\ IsSpace(Head(s)) THEN TrimLeft(Tail(s)) ELSE s

RECURSIVE TrimRight(_)
TrimRight(s) ==
    IF s # <<>> /\ IsSpace(s[Len(s)]) THEN TrimRight(SubSeq(s, 1, Len(s) - 1)) ELSE s

TrimSpace(s) == TrimRight(TrimLeft(s))

ReplaceAll(s, old, new) ==
    [i \in 1..Len(s) |-> IF s[i] = old THEN new ELSE s[i]]

RECURSIVE KeepChars(_, _)
KeepChars(s, keep) ==
    IF s = <<>> THEN <<>>
    ELSE IF Head(s) \in keep
         THEN <<Head(s)>> \o KeepChars(Tail(s), keep)
         ELSE KeepChars(Tail(s), keep)

RECURSIVE DecimalValue(_)
DecimalValue(s) ==
    IF s = <<>> THEN 0
    ELSE 10 * DecimalValue(SubSeq(s, 1, Len(s) - 1)) + DigitVal(s[Len(s)])

AllDigits(s) == s # <<>> /\ \A i \in 1..Len(s) : s[i] \in Digits

\* strconv.Atoi on unsigned text: the value, or 0 with an error
Atoi(s) == IF AllDigits(s) THEN DecimalValue(s) ELSE 0

(***************************************************************************)
(* parsePrice.  A float64 is modelled as the decimal m / 10^e; the program *)
(* returns -1 when the text does not parse.                                *)
(***************************************************************************)
NoPrice == [m |-> -1, e |-> 0]

PointCount(s) == Cardinality({i \in 1..Len(s) : s[i] = "."})

\* strconv.ParseFloat on text made of digits and points only
ParseFloatOk(s) ==
    /\ PointCount(s) <= 1
    /\ \E i \in 1..Len(s) : s[i] \in Digits

ParseFloatValue(s) ==
    LET p == IF PointCount(s) = 0 THEN 0
             ELSE CHOOSE i \in 1..Len(s) : s[i] = "."
    IN [m |-> DecimalValue(KeepChars(s, Digits)),
        e |-> IF p = 0 THEN 0 ELSE Len(s) - p]

ReplaceComma(s) == ReplaceAll(s, ",", ".")

parsePrice(priceStr) ==
    LET trimmed == TrimSpace(TrimPrefix(priceStr, <<"E", "U", "R">>))
        dotted == ReplaceComma(trimmed)
        cleanPrice == KeepChars(dotted, Digits \cup {"."})
    IN IF ParseFloatOk(cleanPrice) THEN ParseFloatValue(cleanPrice) ELSE NoPrice

(***************************************************************************)
(* cleanTitle, isValidItem                                                 *)
(***************************************************************************)
UpperLetters == <<"A", "B", "C", "D", "E", "F", "G", "H", "I", "J", "K", "L", "M", "N", "O", "P", "Q", "R", "S", "T", "U", "V", "W", "X", "Y", "Z">>
LowerLetters == <<"a", "b", "c", "d", "e", "f", "g", "h", "i", "j", "k", "l", "m", "n", "o", "p", "q", "r", "s", "t", "u", "v", "w", "x", "y", "z">>

LowerOf(c) ==
    IF \E i \in 1..Len(UpperLetters) : UpperLetters[i] = c
    THEN LowerLetters[CHOOSE i \in 1..Len(UpperLetters) : UpperLetters[i] = c]
    ELSE c

ToLower(s) == [i \in 1..Len(s) |-> LowerOf(s[i])]

Contains(s, sub) ==
    \E i \in 1..(Len(s) - Len(sub) + 1) : SubSeq(s, i, i + Len(sub) - 1) = sub

cleanTitle(title) == TrimSpace(TrimPrefix(title, <<"N", "e", "u", "e", "s", " ", "A", "n", "g", "e", "b", "o", "t">>))

isValidItem(title, price, url) ==
    /\ ~(title = <<>> \/ price = <<>> \/ url = <<>>)
    /\ ~Contains(ToLower(title), <<"s", "h", "o", "p", " ", "o", "n", " ", "e", "b", "a", "y">>)
    /\ ~Contains(url, <<"i", "t", "m", "m", "e", "t", "a">>)

(***************************************************************************)
(* ListingType, isInPriceRange, shouldIncludeItem, parseWatchers           *)
(***************************************************************************)
All == 0
BuyNow == 1
Auction == 2

\* price < bound, price > bound for a decimal m / 10^e and a whole bound
PriceBelow(price, bound) == price.m < bound * Pow10(price.e)
PriceAbove(price, bound) == price.m > bound * Pow10(price.e)

isInPriceRange(s, price) ==
    IF price.m < 0 THEN FALSE
    ELSE IF s.MinPrice >= 0 /\ PriceBelow(price, s.MinPrice) THEN FALSE
    ELSE IF s.MaxPrice >= 0 /\ PriceAbove(price, s.MaxPrice) THEN FALSE
    ELSE TRUE

isAuction(block) == block.time # <<>> \/ block.bids # <<>>

shouldIncludeItem(s, item) ==
    CASE s.ListingType = BuyNow -> ~item.IsAuction
      [] s.ListingType = Auction -> item.IsAuction
      [] OTHER -> TRUE

\* the digits of the leftmost match of (\d+): the first run of digits
FirstDigitRun(s) ==
    IF \E i \in 1..Len(s) : s[i] \in Digits
    THEN LET a == CHOOSE i \in 1..Len(s) :
                    /\ s[i] \in Digits
                    /\ \A k \in 1..(i - 1) : s[k] \notin Digits
             b == CHOOSE j \in a..Len(s) :
                    /\ \A k \in a..j : s[k] \in Digits
                    /\ (j = Len(s) \/ s[j + 1] \notin Digits)
         IN SubSeq(s, a, b)
    ELSE <<>>

parseWatchers(watcherStr) ==
    IF FirstDigitRun(watcherStr) # <<>> THEN Atoi(FirstDigitRun(watcherStr)) ELSE 0

(***************************************************************************)
(* parseTimeLeft.  A *TimeRange is a record with a nil flag.               *)
(***************************************************************************)
NilTime == [nil |-> TRUE, Days |-> 0, Hours |-> 0, Minutes |-> 0]

TimeRange(d, h, m) == [nil |-> FALSE, Days |-> d, Hours |-> h, Minutes |-> m]

SetMin(S) == CHOOSE x \in S : \A y \in S : x <= y

\* group 1 of the leftmost match of (\d+)unit, or of (\d+)\s*unit when
\* spaced; <<>> when the pattern does not match
CompactCapture(s, unit, spaced) ==
    LET Ends(i) == {j \in i..Len(s) :
                      /\ \A k \in i..j : s[k] \in Digits
                      /\ \E n \in (j + 1)..(Len(s) + 1) :
                            /\ \A k \in (j + 1)..(n - 1) : IsSpace(s[k])
                            /\ (spaced \/ n = j + 1)
                            /\ HasPrefix(SubSeq(s, n, Len(s)), unit)}
        Starts == {i \in 1..Len(s) : Ends(i) # {}}
    IN IF Starts = {} THEN <<>>
       ELSE SubSeq(s, SetMin(Starts), CHOOSE j \in Ends(SetMin(Starts)) : TRUE)

daysRe(s) == CompactCapture(s, <<"T">>, FALSE)
hoursRe(s) == CompactCapture(s, <<"S", "t", "d">>, FALSE)
minsRe(s) == CompactCapture(s, <<"M", "i", "n">>, TRUE)

\* strings.Fields
RECURSIVE Fields(_)
Fields(s) ==
    LET t == TrimLeft(s)
    IN IF t = <<>> THEN <<>>
       ELSE LET n == IF \E i \in 1..Len(t) : IsSpace(t[i])
                     THEN SetMin({i \in 1..Len(t) : IsSpace(t[i])}) - 1
                     ELSE Len(t)
            IN <<SubSeq(t, 1, n)>> \o Fields(SubSeq(t, n + 1, Len(t)))

\* the loop over strings.Fields(timeStr), from part i on
RECURSIVE ScanParts(_, _, _)
ScanParts(parts, i, acc) ==
    IF i > Len(parts) THEN acc
    ELSE LET d == IF HasPrefix(parts[i], <<"T">>) /\ i > 1
                  THEN Atoi(parts[i - 1]) ELSE acc.Days
             h == IF HasPrefix(parts[i], <<"S", "t", "d">>) /\ i > 1
                  THEN Atoi(parts[i - 1]) ELSE acc.Hours
         IN ScanParts(parts, i + 1, [acc EXCEPT !.Days = d, !.Hours = h])

NeedsFallbackIgnoringMins(days, hours, mins) == days = 0 /\ hours = 0

\* the condition guarding the "Noch XTage YStd" scan
NeedsFallback(days, hours, mins) == days = 0 /\ hours = 0 /\ mins = 0

parseTimeLeft(timeStr) ==
    IF timeStr = <<>> THEN NilTime
    ELSE LET days == IF daysRe(timeStr) # <<>> THEN Atoi(daysRe(timeStr)) ELSE 0
             hours == IF hoursRe(timeStr) # <<>> THEN Atoi(hoursRe(timeStr)) ELSE 0
             mins == IF minsRe(timeStr) # <<>> THEN Atoi(minsRe(timeStr)) ELSE 0
         IN IF NeedsFallback(days, hours, mins)
            THEN ScanParts(Fields(timeStr), 1, TimeRange(days, hours, mins))
            ELSE TimeRange(days, hours, mins)

(***************************************************************************)
(* toMinutes, isInTimeRange, shouldCheckTime                               *)
(***************************************************************************)
toMinutesHoursOnly(tr) == (tr.Days * 24) + (tr.Hours * 60) + tr.Minutes

toMinutes(tr) == (tr.Days * 24 * 60) + (tr.Hours * 60) + tr.Minutes

isInTimeRange(s, timeLeft) ==
    IF s.MaxTimeLeft.nil THEN TRUE
    ELSE IF timeLeft.nil THEN FALSE
    ELSE toMinutes(timeLeft) <= toMinutes(s.MaxTimeLeft)

\* defined by the program, called nowhere
shouldCheckTime(s) == s.ListingType = Auction /\ ~s.MaxTimeLeft.nil

(***************************************************************************)
(* Scraper.Scrape on a fetched document: a sequence of .s-item blocks      *)
(*   [title, price, url, watch, time, bids], each a text                   *)
(***************************************************************************)
\* main's scraper := NewScraper() followed by the four assignments
ScraperFor(search) ==
    [MinPrice |-> search.MinPrice, MaxPrice |-> search.MaxPrice,
     ListingType |-> search.ListingType, MaxTimeLeft |-> search.MaxTimeLeft]

ItemOf(block) ==
    [Title |-> cleanTitle(block.title), Price |-> block.price,
     PriceValue |-> parsePrice(block.price), URL |-> block.url,
     IsAuction |-> isAuction(block), Watchers |-> parseWatchers(block.watch),
     TimeLeft |-> block.time]

KeepsBlock(s, block) ==
    /\ isValidItem(cleanTitle(block.title), block.price, block.url)
    /\ isInPriceRange(s, parsePrice(block.price))
    /\ shouldIncludeItem(s, ItemOf(block))
    /\ isInTimeRange(s, parseTimeLeft(block.time))

RECURSIVE Scrape(_, _)
Scrape(s, doc) ==
    IF doc = <<>> THEN <<>>
    ELSE IF KeepsBlock(s, Head(doc))
         THEN <<ItemOf(Head(doc))>> \o Scrape(s, Tail(doc))
         ELSE Scrape(s, Tail(doc))

\* main's watcher filter over the scrape results
WatcherOk(search, item) ==
    /\ (search.MinWatchers <= 0 \/ item.Watchers >= search.MinWatchers)
    /\ (search.MaxWatchers <= 0 \/ item.Watchers <= search.MaxWatchers)

RECURSIVE FilterWatchers(_, _)
FilterWatchers(search, results) ==
    IF results = <<>> THEN <<>>
    ELSE IF WatcherOk(search, Head(results))
         THEN <<Head(results)>> \o FilterWatchers(search, Tail(results))
         ELSE FilterWatchers(search, Tail(results))

(***************************************************************************)
(* saveNewItems.  A sink call is [op, url, query] with op "findings" (the  *)
(* Encode on findings.json), "daily" (the Encode on the daily log) or      *)
(* "print" (printItem); an Encode error is only logged.                    *)
(***************************************************************************)
\* seenItems[item.URL]
AlreadySeen(seen, url) == url \in seen

MarkSeenForgets(seen, url) == seen

\* seenItems[item.URL] = true
MarkSeen(seen, url) == seen \cup {url}

SinkCallsPrintFirst(item, query) ==
    <<[op |-> "print", url |-> item.URL, query |-> query],
      [op |-> "findings", url |-> item.URL, query |-> query],
      [op |-> "daily", url |-> item.URL, query |-> query]>>

\* the body of the loop for one unseen item: both encodes, then printItem
SinkCalls(item, query) ==
    <<[op |-> "findings", url |-> item.URL, query |-> query],
      [op |-> "daily", url |-> item.URL, query |-> query],
      [op |-> "print", url |-> item.URL, query |-> query]>>

RECURSIVE SaveLoop(_, _, _, _)
SaveLoop(items, query, seen, events) ==
    IF items = <<>> THEN [seen |-> seen, events |-> events]
    ELSE IF ~AlreadySeen(seen, Head(items).URL)
         THEN SaveLoop(Tail(items), query, MarkSeen(seen, Head(items).URL),
                       events \o SinkCalls(Head(items), query))
         ELSE SaveLoop(Tail(items), query, seen, events)

saveNewItemsMarksUnopened(items, query, seen, openFindings, openDaily) ==
    IF ~openFindings \/ ~openDaily
    THEN [seen |-> SaveLoop(items, query, seen, <<>>).seen, events |-> <<>>]
    ELSE SaveLoop(items, query, seen, <<>>)

saveNewItems(items, query, seen, openFindings, openDaily) ==
    IF ~openFindings THEN [seen |-> seen, events |-> <<>>]
    ELSE IF ~openDaily THEN [seen |-> seen, events |-> <<>>]
    ELSE SaveLoop(items, query, seen, <<>>)

(***************************************************************************)
(* Inputs of main(): configuration files, prompt answers, fetched pages    *)
(***************************************************************************)
QueryA == <<"i", "p", "h", "o", "n", "e">>
QueryB == <<"l", "e", "g", "o">>
Url1 == <<"u", "1">>
Url2 == <<"u", "2">>
UrlAd == <<"i", "t", "m", "m", "e", "t", "a", "9">>

Urls == {Url1, Url2, UrlAd}

Search(q, lt, minP, maxP, minW, maxW, maxT) ==
    [Query |-> q, ListingType |-> lt, MinPrice |-> minP, MaxPrice |-> maxP,
     MinWatchers |-> minW, MaxWatchers |-> maxW, MaxTimeLeft |-> maxT]

SearchAll == Search(QueryA, All, -1, -1, -1, -1, NilTime)
SearchAuctions == Search(QueryB, Auction, -1, 50, -1, -1, TimeRange(7, 0, 0))
SearchCheap == Search(QueryA, All, -1, 10, 1, -1, NilTime)

\* what loadConfig can return: no file, or the Config of config.json (a
\* missing check_interval_seconds unmarshals to 0)
NoFile == [err |-> TRUE, CheckInterval |-> 0, Searches |-> <<>>]

FileConfigs ==
    {[err |-> FALSE, CheckInterval |-> i, Searches |-> l] :
        i \in {0, 120}, l \in {<<>>, <<SearchAll>>, <<SearchAll, SearchAuctions>>}}

LoadResults == {NoFile} \cup FileConfigs

Choices == {"1", "2", "3", "other"}

\* the answers to promptForSearch, in order
PromptedSearches == <<SearchCheap, SearchAuctions>>

\* the answer to "How often to check": empty, not a number, or a number
IntervalAnswers ==
    {[kind |-> "empty", n |-> 0], [kind |-> "invalid", n |-> 0],
     [kind |-> "int", n |-> 0], [kind |-> "int", n |-> 60]}

Block(title, price, url, watch, time, bids) ==
    [title |-> title, price |-> price, url |-> url, watch |-> watch,
     time |-> time, bids |-> bids]

BlockFixed == Block(<<"N", "e", "u", "e", "s", " ", "A", "n", "g", "e", "b", "o", "t", " ", "P", "h", "o", "n", "e">>, <<"E", "U", "R", " ", "5", ",", "0", "0">>, Url1, <<"1", "2", " ", "B", "e", "o", "b", "a", "c", "h", "t", "e", "r">>, <<>>, <<>>)
BlockAuction == Block(<<"L", "e", "g", "o">>, <<"E", "U", "R", " ", "2", "0", ",", "5", "0">>, Url2, <<>>, <<"5", "T", " ", "1", "2", "S", "t", "d">>, <<"3", " ", "G", "e", "b", "o", "t", "e">>)
BlockAd == Block(<<"S", "h", "o", "p", " ", "o", "n", " ", "e", "B", "a", "y">>, <<"E", "U", "R", " ", "2", "0", ",", "0", "0">>, UrlAd, <<>>, <<>>, <<>>)

Blocks == {BlockFixed, BlockAuction, BlockAd}

Docs == UNION {[1..n -> Blocks] : n \in 0..MaxBlocks}

\* ScrapeQuery: the http.Get, status or parse error, or the parsed document
FetchResults == {[err |-> TRUE, doc |-> <<>>]} \cup {[err |-> FALSE, doc |-> d] : d \in Docs}

(***************************************************************************)
(* main(): configuration, then the polling loop                            *)
(***************************************************************************)
Queries == {QueryA, QueryB}

DefaultConfig == [CheckInterval |-> 300, Searches |-> <<>>]

NoStep ==
    [done |-> FALSE, idx |-> 0, query |-> <<>>, err |-> FALSE, opened |-> FALSE,
     urls |-> <<>>, seenBefore |-> <<>>, events |-> <<>>, announced |-> 0]

NoCall == [fn |-> "none", done |-> FALSE]

MainInit ==
    /\ config = DefaultConfig
    /\ seenItems = [q \in {} |-> {}]
    /\ idx = 1
    /\ cycleLog = <<>>
    /\ sleeps = [slept |-> FALSE, seconds |-> 0, after |-> <<>>]
    /\ step = NoStep
    /\ reportCount = [q \in Queries |-> [u \in Urls |-> [saved |-> 0, printed |-> 0]]]

Init ==
    /\ pc = "startup"
    /\ MainInit
    /\ call = NoCall

\* the switch on the answer to "use existing config / add / start fresh"
ConfigAfterLoad(loaded, choice) ==
    IF ~loaded.err /\ choice \in {"1", "2"}
    THEN [CheckInterval |-> loaded.CheckInterval, Searches |-> loaded.Searches]
    ELSE DefaultConfig

\* the prompts taken when the configuration has no searches
ConfigAfterPrompt(c, numSearches, answer) ==
    IF Len(c.Searches) = 0
    THEN [CheckInterval |-> IF answer.kind = "int" THEN answer.n ELSE c.CheckInterval,
          Searches |-> SubSeq(PromptedSearches, 1, numSearches)]
    ELSE c

QueriesOf(searches) == {searches[i].Query : i \in 1..Len(searches)}

Startup ==
    /\ pc = "startup"
    /\ \E loaded \in LoadResults, choice \in Choices,
          numSearches \in 0..Len(PromptedSearches), answer \in IntervalAnswers :
         IF ~loaded.err /\ choice \notin {"1", "2", "3"}
         THEN /\ pc' = "fatal"
              /\ UNCHANGED <<config, seenItems>>
         ELSE LET c == ConfigAfterPrompt(ConfigAfterLoad(loaded, choice), numSearches, answer)
              IN /\ pc' = "loop"
                 /\ config' = c
                 /\ seenItems' = [q \in QueriesOf(c.Searches) |-> {}]
    /\ UNCHANGED <<idx, cycleLog, sleeps, step, reportCount, call>>

CountOp(events, op, url) ==
    Cardinality({i \in 1..Len(events) : events[i].op = op /\ events[i].url = url})

Capped(n) == IF n > MaxCount THEN MaxCount ELSE n

UrlsOf(items) == [i \in 1..Len(items) |-> items[i].URL]

AfterErrorRetry(i) == i

\* the continue after a failed ScrapeQuery
AfterError(i) == i + 1

\* the count printed after saveNewItems: filtered results not in the store
CountNew(urls, seen) == Cardinality({i \in 1..Len(urls) : urls[i] \notin seen})

\* the sinks' calls counted into reportCount
Counted(counts, events) ==
    [u \in Urls |->
        [saved |-> Capped(counts[u].saved + CountOp(events, "findings", u)),
         printed |-> Capped(counts[u].printed + CountOp(events, "print", u))]]

\* the loop body after a successful ScrapeQuery: watcher filter,
\* saveNewItems, the count of new items
HandleResults(search, results, openFindings, openDaily) ==
    \E filteredResults \in {FilterWatchers(search, results)} :
      \E saved \in {saveNewItems(filteredResults, search.Query,
                                 seenItems[search.Query], openFindings, openDaily)} :
        /\ seenItems' = [seenItems EXCEPT ![search.Query] = saved.seen]
        /\ step' = [done |-> TRUE, idx |-> idx, query |-> search.Query,
                    err |-> FALSE, opened |-> openFindings /\ openDaily,
                    urls |-> UrlsOf(filteredResults),
                    seenBefore |-> seenItems, events |-> saved.events,
                    announced |-> CountNew(UrlsOf(filteredResults), saved.seen)]
        /\ reportCount' = [reportCount EXCEPT ![search.Query] = Counted(@, saved.events)]

\* one iteration of the loop over config.Searches
ProcessSearch ==
    /\ pc = "loop"
    /\ idx <= Len(config.Searches)
    /\ \E fetch \in FetchResults :
         IF fetch.err
         THEN /\ idx' = AfterError(idx)
              /\ step' = [done |-> TRUE, idx |-> idx, query |-> config.Searches[idx].Query,
                          err |-> TRUE, opened |-> FALSE, urls |-> <<>>,
                          seenBefore |-> seenItems, events |-> <<>>, announced |-> 0]
              /\ cycleLog' = Append(cycleLog, [i |-> idx, err |-> TRUE])
              /\ UNCHANGED <<seenItems, reportCount>>
         ELSE /\ idx' = idx + 1
              /\ cycleLog' = Append(cycleLog, [i |-> idx, err |-> FALSE])
              /\ \E results \in {Scrape(ScraperFor(config.Searches[idx]), fetch.doc)} :
                    \E openFindings \in BOOLEAN, openDaily \in BOOLEAN :
                       HandleResults(config.Searches[idx], results, openFindings, openDaily)
    /\ UNCHANGED <<pc, config, sleeps, call>>

AfterSleepExits == "exit"

\* the unconditional for { } around the cycle: after the sleep, loop again
AfterSleep == "loop"

\* time.Sleep(time.Duration(config.CheckInterval) * time.Second) and the
\* start of the next cycle
Sleep ==
    /\ pc = "loop"
    /\ idx > Len(config.Searches)
    /\ sleeps' = [slept |-> TRUE, seconds |-> config.CheckInterval, after |-> cycleLog]
    /\ idx' = 1
    /\ cycleLog' = <<>>
    /\ pc' = AfterSleep
    /\ UNCHANGED <<config, seenItems, step, reportCount, call>>

Next == Startup \/ ProcessSearch \/ Sleep

Spec == Init /\ [][Next]_vars

\* every ScrapeQuery call and every time.Sleep returns: an iteration that
\* can run does run
LiveSpec == Init /\ [][Next]_vars /\ WF_vars(ProcessSearch) /\ WF_vars(Sleep)

(***************************************************************************)
(* parsePrice on bounded inputs                                            *)
(***************************************************************************)
PriceChars == {"0", "1", ".", ",", " ", "x"}

PriceBodies == UNION {[1..n -> PriceChars] : n \in 0..MaxPriceLen}

PriceScenario == <<"E", "U", "R", " ", "1", ".", "2", "3", "4", ",", "5", "6">>

PriceInputs ==
    PriceBodies \cup {<<"E", "U", "R", " ">> \o b : b \in PriceBodies}
        \cup {PriceScenario, <<"E", "U", "R", " ", "1", "2", ",", "5", "0">>, <<"1", ".", "2", "3", "4">>}

InitPrice ==
    /\ pc = "pure"
    /\ MainInit
    /\ call \in {[fn |-> "parsePrice", done |-> FALSE, arg |-> a, res |-> NoPrice] :
                    a \in PriceInputs}

ApplyParsePrice ==
    /\ pc = "pure"
    /\ call.fn = "parsePrice"
    /\ ~call.done
    /\ call' = [call EXCEPT !.done = TRUE, !.res = parsePrice(call.arg)]
    /\ UNCHANGED <<pc, config, seenItems, idx, cycleLog, sleeps, step, reportCount>>

NextPrice == ApplyParsePrice

SpecPrice == InitPrice /\ [][NextPrice]_vars

(***************************************************************************)
(* parseTimeLeft on bounded inputs: up to MaxTimePieces words joined by    *)
(* single spaces (an empty word gives leading, trailing or double spaces)  *)
(***************************************************************************)
TimeWords ==
    {<<>>, <<"0">>, <<"5">>, <<"1", "2">>, <<"T">>, <<"T", "a", "g", "e">>, <<"S", "t", "d">>, <<"5", "T">>, <<"0", "T">>, <<"1", "2", "S", "t", "d">>,
     <<"0", "S", "t", "d">>, <<"M", "i", "n">>, <<"3", "0", "M", "i", "n">>, <<"N", "o", "c", "h">>}

RECURSIVE JoinWords(_)
JoinWords(ws) ==
    IF ws = <<>> THEN <<>>
    ELSE IF Len(ws) = 1 THEN ws[1]
    ELSE ws[1] \o <<" ">> \o JoinWords(Tail(ws))

TimeScenario == <<"5", "T", " ", "1", "2", "S", "t", "d">>

TimeInputs ==
    {JoinWords(ws) : ws \in UNION {[1..n -> TimeWords] : n \in 0..MaxTimePieces}}
        \cup {TimeScenario}

InitTime ==
    /\ pc = "pure"
    /\ MainInit
    /\ call \in {[fn |-> "parseTimeLeft", done |-> FALSE, arg |-> a, res |-> NilTime] :
                    a \in TimeInputs}

ApplyParseTimeLeft ==
    /\ pc = "pure"
    /\ call.fn = "parseTimeLeft"
    /\ ~call.done
    /\ call' = [call EXCEPT !.done = TRUE, !.res = parseTimeLeft(call.arg)]
    /\ UNCHANGED <<pc, config, seenItems, idx, cycleLog, sleeps, step, reportCount>>

NextTime == ApplyParseTimeLeft

SpecTime == InitTime /\ [][NextTime]_vars

(***************************************************************************)
(* The filters of one search on one .s-item block: Scrape on a one-block   *)
(* document followed by main's watcher filter                              *)
(***************************************************************************)
FilterPrices == {<<"E", "U", "R", " ", "5", ",", "0", "0">>, <<"E", "U", "R", " ", "2", "0", ",", "5", "0">>, <<"P", "r", "e", "i", "s">>}
FilterTimes == {<<>>, <<"2", "5", "S", "t", "d">>, <<"1", "T", " ", "1", "S", "t", "d">>, <<"5", "T", " ", "1", "2", "S", "t", "d">>}
FilterBids == {<<>>, <<"3", " ", "G", "e", "b", "o", "t", "e">>}
FilterWatches == {<<>>, <<"1", "2", " ", "B", "e", "o", "b", "a", "c", "h", "t", "e", "r">>}

FilterBlocks ==
    {Block(<<"P", "h", "o", "n", "e">>, p, Url1, w, t, b) :
        p \in FilterPrices, w \in FilterWatches, t \in FilterTimes, b \in FilterBids}

\* listing_type as config.json can carry it
ListingTypeValues == 0..3

FilterSearches ==
    {Search(QueryA, lt, minP, maxP, minW, maxW, maxT) :
        lt \in ListingTypeValues, minP \in {-1, 10}, maxP \in {-1, 10},
        minW \in {-1, 5}, maxW \in {-1, 5},
        maxT \in {NilTime, TimeRange(1, 0, 0), TimeRange(1, 1, 0), TimeRange(0, 25, 0)}}

InitFilter ==
    /\ pc = "pure"
    /\ MainInit
    /\ call \in {[fn |-> "filter", done |-> FALSE, block |-> b, search |-> c, res |-> FALSE] :
                    b \in FilterBlocks, c \in FilterSearches}

\* whether the block reaches filteredResults
InFilteredResults(search, block) ==
    FilterWatchers(search, Scrape(ScraperFor(search), <<block>>)) # <<>>

ApplyFilter ==
    /\ pc = "pure"
    /\ call.fn = "filter"
    /\ ~call.done
    /\ call' = [call EXCEPT !.done = TRUE, !.res = InFilteredResults(call.search, call.block)]
    /\ UNCHANGED <<pc, config, seenItems, idx, cycleLog, sleeps, step, reportCount>>

NextFilter == ApplyFilter

SpecFilter == InitFilter /\ [][NextFilter]_vars

(***************************************************************************)
(* Properties of the polling loop (Spec)                                   *)
(***************************************************************************)
StepRan == step.done /\ ~step.err

\* positions of the calls with this op for this url in the last step
CallsAt(op, u) == {i \in 1..Len(step.events) : step.events[i].op = op /\ step.events[i].url = u}

NewInStep(u) ==
    /\ \E i \in 1..Len(step.urls) : step.urls[i] = u
    /\ u \notin step.seenBefore[step.query]

OldInStep(u) ==
    /\ \E i \in 1..Len(step.urls) : step.urls[i] = u
    /\ u \in step.seenBefore[step.query]

\* one write to each file and one print, the writes before the print
SavedThenPrintedOnce(u) ==
    /\ Cardinality(CallsAt("findings", u)) = 1
    /\ Cardinality(CallsAt("daily", u)) = 1
    /\ Cardinality(CallsAt("print", u)) = 1
    /\ \A i \in CallsAt("findings", u) \cup CallsAt("daily", u) :
          \A j \in CallsAt("print", u) : i < j

NoCallsFor(u) == \A i \in 1..Len(step.events) : step.events[i].url # u

\* C1: for each search term a listing url is saved and printed as new at
\* most once over the life of the process, however often it is extracted
C1_ReportedAtMostOnce ==
    \A q \in Queries, u \in Urls :
        /\ reportCount[q][u].saved <= 1
        /\ reportCount[q][u].printed <= 1

\* a url already reported for the term is extracted again, and is still
\* counted once
C1_Witness ==
    /\ StepRan
    /\ step.opened
    /\ \E u \in Urls : OldInStep(u) /\ reportCount[step.query][u].printed = 1

\* C2 as stated: every filtered listing whose url is not in the store is
\* written once and printed once, the write first; a listing already in the
\* store reaches neither sink
C2_Original ==
    StepRan =>
        \A u \in Urls :
            /\ NewInStep(u) => SavedThenPrintedOnce(u)
            /\ OldInStep(u) => NoCallsFor(u)

\* C2 amended: the same when saveNewItems opened both findings.json and the
\* daily log; when either file did not open, no sink is called at all
C2_SinksWhenOpened ==
    StepRan =>
        IF step.opened
        THEN \A u \in Urls :
                /\ NewInStep(u) => SavedThenPrintedOnce(u)
                /\ OldInStep(u) => NoCallsFor(u)
        ELSE step.events = <<>>

\* both files opened, one listing was new and one was already in the store
C2_Witness ==
    /\ StepRan
    /\ step.opened
    /\ \E u \in Urls : NewInStep(u) /\ SavedThenPrintedOnce(u)
    /\ \E u \in Urls : OldInStep(u)

InOrder(log, n) ==
    /\ Len(log) = n
    /\ \A i \in 1..n : log[i].i = i

\* C3: in a cycle every configured search is attempted once, in
\* configuration order, before the sleep; a failed fetch or parse calls no
\* sink, leaves the stores as they were and is followed by the next search
C3_CycleCoversAllSearches ==
    /\ InOrder(cycleLog, idx - 1)
    /\ sleeps.slept => InOrder(sleeps.after, Len(config.Searches))
    /\ (step.done /\ step.err) =>
          /\ step.events = <<>>
          /\ seenItems = step.seenBefore
          /\ (cycleLog # <<>> => idx = step.idx + 1)

\* a cycle of two searches whose first search failed was completed
C3_Witness ==
    /\ sleeps.slept
    /\ Len(sleeps.after) = 2
    /\ sleeps.after[1].err
    /\ ~sleeps.after[2].err

\* C4: the end-of-cycle sleep is strictly positive; a zero or unset
\* interval is replaced by the 300 second fallback
C4_SleepPositive ==
    sleeps.slept =>
        /\ sleeps.seconds > 0
        /\ (config.CheckInterval <= 0 => sleeps.seconds = 300)

\* search i of the configuration has just been fetched (or there is none)
JustFetched(i) ==
    \/ pc \in {"startup", "fatal"}
    \/ i > Len(config.Searches)
    \/ step.done /\ step.idx = i /\ Len(cycleLog) = i

CycleStarting == pc \in {"startup", "fatal"} \/ (idx = 1 /\ cycleLog = <<>>)

\* C11: once the loop runs, whatever fetches, parses and file opens fail,
\* a new cycle starts again and again and every configured search is
\* fetched infinitely often
C11_LoopNeverEnds ==
    /\ []<>CycleStarting
    /\ \A i \in 1..Len(PromptedSearches) : []<>JustFetched(i)

\* after a cycle in which a search failed, the next cycle has fetched its
\* first search again
C11_Witness ==
    /\ sleeps.slept
    /\ \E k \in 1..Len(sleeps.after) : sleeps.after[k].err
    /\ step.done /\ step.idx = 1 /\ Len(cycleLog) = 1

NewlyRecorded == seenItems[step.query] \ step.seenBefore[step.query]

\* C12: the count announced for a search equals the number of listings
\* newly recorded, saved and printed for it in that cycle
C12_AnnouncedCountIsNewCount ==
    StepRan =>
        /\ step.announced = Cardinality(NewlyRecorded)
        /\ step.announced = Cardinality({i \in 1..Len(step.events) : step.events[i].op = "print"})

\* C13: when findings.json or the daily log did not open, the store is
\* unchanged and nothing is printed; a url enters the store only in a step
\* that also calls both writes and the print for it
C13_StoreOnlyWithSinks ==
    StepRan =>
        /\ (~step.opened => seenItems = step.seenBefore /\ step.events = <<>>)
        /\ \A q \in DOMAIN seenItems : q # step.query => seenItems[q] = step.seenBefore[q]
        /\ \A u \in NewlyRecorded :
              /\ CallsAt("findings", u) # {}
              /\ CallsAt("daily", u) # {}
              /\ CallsAt("print", u) # {}

\* a file did not open while a filtered listing was new: it is still
\* outside the store
C13_Witness ==
    /\ StepRan
    /\ ~step.opened
    /\ \E u \in Urls : NewInStep(u) /\ u \notin seenItems[step.query]

(***************************************************************************)
(* Properties of the filters (SpecFilter): the four checks as specified    *)
(***************************************************************************)
Listing == ItemOf(call.block)
Remaining == parseTimeLeft(call.block.time)
Criteria == call.search

TotalMinutes(d) == d.Days * 1440 + d.Hours * 60 + d.Minutes

PriceCheck ==
    /\ Listing.PriceValue.m >= 0
    /\ (Criteria.MinPrice >= 0 =>
           Listing.PriceValue.m >= Criteria.MinPrice * Pow10(Listing.PriceValue.e))
    /\ (Criteria.MaxPrice >= 0 =>
           Listing.PriceValue.m <= Criteria.MaxPrice * Pow10(Listing.PriceValue.e))

TypeCheck ==
    /\ (Criteria.ListingType = BuyNow => ~Listing.IsAuction)
    /\ (Criteria.ListingType = Auction => Listing.IsAuction)

CeilingEvaluated == Criteria.ListingType = Auction /\ ~Criteria.MaxTimeLeft.nil

TimeCheck ==
    CeilingEvaluated =>
        /\ ~Remaining.nil
        /\ TotalMinutes(Remaining) <= TotalMinutes(Criteria.MaxTimeLeft)

WatcherCheck ==
    /\ (Criteria.MinWatchers > 0 => Listing.Watchers >= Criteria.MinWatchers)
    /\ (Criteria.MaxWatchers > 0 => Listing.Watchers <= Criteria.MaxWatchers)

\* C5: a listing is in the filtered results iff it passes the price, type,
\* time-ceiling and watcher checks
C5_FilterConjunctive ==
    (call.done /\ Criteria.ListingType \in {All, BuyNow, Auction}) =>
        (call.res <=> (PriceCheck /\ TypeCheck /\ TimeCheck /\ WatcherCheck))

\* C6: under an Any or FixedPriceOnly type filter a listing that passes the
\* price, type and watcher checks is included whatever its time remaining,
\* also when maxTimeRemaining is set
C6_CeilingOnlyForAuctionSearch ==
    (call.done /\ Criteria.ListingType \in {All, BuyNow}
               /\ PriceCheck /\ TypeCheck /\ WatcherCheck) => call.res

\* C7: when the ceiling is evaluated a listing passes iff its time
\* remaining is present and its days*1440 + hours*60 + minutes is at most
\* the ceiling's; equal totals are treated alike
C7_CeilingByTotalMinutes ==
    (call.done /\ CeilingEvaluated /\ PriceCheck /\ TypeCheck /\ WatcherCheck) =>
        (call.res <=> (/\ ~Remaining.nil
                       /\ TotalMinutes(Remaining) <= TotalMinutes(Criteria.MaxTimeLeft)))

\* a listing with 25 hours left is admitted under a ceiling of 1 day 1 hour
C7_Witness ==
    /\ call.done
    /\ CeilingEvaluated /\ PriceCheck /\ TypeCheck /\ WatcherCheck
    /\ Remaining = TimeRange(0, 25, 0)
    /\ Criteria.MaxTimeLeft = TimeRange(1, 1, 0)
    /\ call.res

\* C9: listing_type 1 admits auctions and fixed-price listings, 2 only
\* Buy Now listings, 3 only auctions (searches without a time ceiling)
C9_ReadmeListingTypes ==
    (call.done /\ Criteria.MaxTimeLeft.nil /\ PriceCheck /\ WatcherCheck) =>
        /\ (Criteria.ListingType = 1 => call.res)
        /\ (Criteria.ListingType = 2 => (call.res <=> ~Listing.IsAuction))
        /\ (Criteria.ListingType = 3 => (call.res <=> Listing.IsAuction))

(***************************************************************************)
(* Properties of parsePrice (SpecPrice)                                    *)
(***************************************************************************)
PriceEq(a, b) == a.m * Pow10(b.e) = b.m * Pow10(a.e)

HasDigit(s) == \E i \in 1..Len(s) : s[i] \in Digits

\* the text read as a price in the listing's locale: an optional EUR, then
\* digits, points as thousands separators, at most one decimal comma
LocaleBody(s) == TrimSpace(TrimPrefix(s, <<"E", "U", "R">>))

CommaAt(s) ==
    IF \E i \in 1..Len(s) : s[i] = "," THEN SetMin({i \in 1..Len(s) : s[i] = ","})
    ELSE Len(s) + 1

LocaleWhole(s) == SubSeq(LocaleBody(s), 1, CommaAt(LocaleBody(s)) - 1)
LocaleFraction(s) == SubSeq(LocaleBody(s), CommaAt(LocaleBody(s)) + 1, Len(LocaleBody(s)))

GroupedDigits(w) ==
    /\ w # <<>>
    /\ w[1] \in Digits
    /\ \A i \in 1..Len(w) :
          IF (Len(w) - i + 1) % 4 = 0 THEN w[i] = "." ELSE w[i] \in Digits

\* plain digits with an optional decimal comma, or thousands groups
\* followed by a decimal comma
IsLocalePrice(s) ==
    IF CommaAt(LocaleBody(s)) <= Len(LocaleBody(s))
    THEN /\ AllDigits(LocaleWhole(s)) \/ GroupedDigits(LocaleWhole(s))
         /\ AllDigits(LocaleFraction(s))
    ELSE AllDigits(LocaleWhole(s))

LocaleValue(s) ==
    [m |-> DecimalValue(KeepChars(LocaleWhole(s), Digits) \o LocaleFraction(s)),
     e |-> Len(LocaleFraction(s))]

\* C8: parsePrice returns the exact value of every price text, thousands
\* points and decimal comma included ("EUR 1.234,56" is 1234.56), and the
\* absent sentinel for a text without digits
C8_ParsePriceExact ==
    call.done =>
        /\ (IsLocalePrice(call.arg) =>
               call.res # NoPrice /\ PriceEq(call.res, LocaleValue(call.arg)))
        /\ (call.arg = PriceScenario => PriceEq(call.res, [m |-> 123456, e |-> 2]))
        /\ (~HasDigit(call.arg) => call.res = NoPrice)

(***************************************************************************)
(* Properties of parseTimeLeft (SpecTime)                                  *)
(***************************************************************************)
CompactValue(capture) == IF capture # <<>> THEN Atoi(capture) ELSE 0

CompactDays == CompactValue(daysRe(call.arg))
CompactHours == CompactValue(hoursRe(call.arg))
CompactMins == CompactValue(minsRe(call.arg))

NoCompactMatch ==
    daysRe(call.arg) = <<>> /\ hoursRe(call.arg) = <<>> /\ minsRe(call.arg) = <<>>

CompactAllZero == CompactDays = 0 /\ CompactHours = 0 /\ CompactMins = 0

SetMax(S) == CHOOSE x \in S : \A y \in S : x >= y

\* the count before the last word that starts with the unit, 0 without one
SpacedCount(unit) ==
    LET parts == Fields(call.arg)
        at == {i \in 2..Len(parts) : HasPrefix(parts[i], unit)}
    IN IF at = {} THEN 0 ELSE Atoi(parts[SetMax(at) - 1])

SpacedResult == TimeRange(SpacedCount(<<"T">>), SpacedCount(<<"S", "t", "d">>), 0)

CompactResult == TimeRange(CompactDays, CompactHours, CompactMins)

\* C10 as stated: absent only for empty input; otherwise the compact
\* values, with the spaced scan iff none of the three patterns matched
C10_Original ==
    call.done =>
        /\ (call.res.nil <=> call.arg = <<>>)
        /\ (call.arg = TimeScenario =>
               call.res = TimeRange(5, 12, 0) /\ TotalMinutes(call.res) = 7920)
        /\ (call.arg # <<>> =>
               call.res = IF NoCompactMatch THEN SpacedResult ELSE CompactResult)

\* C10 amended: the spaced scan runs iff the days, hours and minutes taken
\* from the compact patterns are all zero, matched or not
C10_FallbackWhenAllZero ==
    call.done =>
        /\ (call.res.nil <=> call.arg = <<>>)
        /\ (call.arg = TimeScenario =>
               call.res = TimeRange(5, 12, 0) /\ TotalMinutes(call.res) = 7920)
        /\ (call.arg # <<>> =>
               call.res = IF CompactAllZero THEN SpacedResult ELSE CompactResult)

\* a compact pattern matched a zero and the spaced scan still supplied a count
C10_Witness ==
    /\ call.done
    /\ ~NoCompactMatch
    /\ CompactAllZero
    /\ call.res = SpacedResult
    /\ call.res # CompactResult

====
